---- MODULE Spec2Model ----
(***************************************************************************)
(* A model of build_plugin.py: the six-stage build pipeline run by main()  *)
(* (fetch_f4se, patch_f4se, update_project_references, make_solution,      *)
(* build_plugin, package_plugin) over a build directory that is kept       *)
(* between runs, and the text algorithms of the stages.                    *)
(*                                                                         *)
(* Specifications:                                                         *)
(*   Spec          the pipeline of main(), run after run on one build      *)
(*                 directory, with the git state of the two clones         *)
(*   SpecInclude   add_include_line on a header file                       *)
(*   SpecPatch     the ConfigurationType substitution of patch_f4se        *)
(*   SpecSolution  make_solution: extraction and template substitution     *)
(*   SpecPackage   package_plugin: archive name and archive entries        *)
(***************************************************************************)
EXTENDS Integers, Sequences, FiniteSets, Bags, TLC

VARIABLES
    \* ---- the pipeline (Spec) ----
    pc,            \* position of main(): "main", a stage name, "return", "exit"
    rev,           \* ctx.f4se_revision of the current run
    cmds,          \* fetch_f4se's cmds list, the commands not yet run
    log,           \* what the current run did so far: stage starts and ends,
                   \* external commands with their return codes, failures
    exitStatus,    \* the exit status of the run (read when pc = "exit")
    archiveWritten,\* the current run wrote the archive
    f4se,          \* the clone build_dir/f4se
    common,        \* the clone build_dir/common
    upstream,      \* the commit the common remote's HEAD points to
    runs,          \* number of runs started on this build directory
    \* ---- add_include_line (SpecInclude) ----
    incFile,       \* content of the header file, a sequence of characters
    incLine,       \* the include_line argument
    incFirst,      \* content of the file after the first application
    incCount,      \* number of applications so far
    incRet,        \* return value of the last application
    \* ---- patch_f4se's substitution (SpecPatch) ----
    projOrig,      \* f4se.vcxproj as fetched, a sequence of lines
    projText,      \* f4se.vcxproj in the build directory
    patchRuns,     \* number of times the substitution ran
    \* ---- make_solution (SpecSolution) ----
    srcProject,    \* the plugin's project file, a sequence of lines
    solution,      \* the written f4se_plugin.sln, a sequence of lines of tokens
    solPc,         \* "start", "written", "fatal" (SystemExit(1)), "error" (re.error)
    \* ---- package_plugin (SpecPackage) ----
    configH,       \* Config.h: whether it can be read, and its lines
    buildDir,      \* ctx.build_dir as a path
    extras,        \* ctx.include_extras: whether given, the tree's files and empty dirs
    dlls,          \* the names of the .dll files under build_dir/x64/Release
    archiveName,   \* archive_name: <<"plugin">>, or <<name, version>> for "name version"
    archive,       \* the archive: the binary taken, its entry, the entries of the extras
    pkgPc          \* "start", "named", "written", "failed"

runVars == <<pc, rev, cmds, log, exitStatus, archiveWritten, f4se, common, upstream, runs>>
incVars == <<incFile, incLine, incFirst, incCount, incRet>>
patchVars == <<projOrig, projText, patchRuns>>
solVars == <<srcProject, solution, solPc>>
pkgVars == <<configH, buildDir, extras, dlls, archiveName, archive, pkgPc>>
vars == <<runVars, incVars, patchVars, solVars, pkgVars>>
\* What each specification leaves alone.
notRun == <<incVars, patchVars, solVars, pkgVars>>
notInc == <<runVars, patchVars, solVars, pkgVars>>
notPatch == <<runVars, incVars, solVars, pkgVars>>
notSol == <<runVars, incVars, patchVars, pkgVars>>
notPkg == <<runVars, incVars, patchVars, solVars>>

(***************************************************************************)
(* Bounds.                                                                 *)
(***************************************************************************)
NumRevs == 2
MaxReturnCode == 2
MaxRuns == 2
MaxFileLen == 3
MaxIncLen == 2
MaxApplications == 3
MaxProjLines == 5
MaxPatchRuns == 2
MaxSrcLines == 4
MaxNameLen == 2
MaxHeaderLines == 2

Revs == 1..NumRevs
ReturnCodes == 0..MaxReturnCode

(***************************************************************************)
(* The state each part is in while another part's specification runs.      *)
(***************************************************************************)
RunIdle ==
    /\ pc = "idle" /\ rev = 0 /\ cmds = <<>> /\ log = <<>> /\ exitStatus = 0
    /\ archiveWritten = FALSE
    /\ f4se = [exists |-> FALSE, head |-> 0, refs |-> {}, dirty |-> FALSE]
    /\ common = [exists |-> FALSE, head |-> 0, fetchHead |-> 0, dirty |-> FALSE]
    /\ upstream = 0 /\ runs = 0
IncIdle ==
    incFile = <<>> /\ incLine = <<>> /\ incFirst = <<>> /\ incCount = 0 /\ incRet = FALSE
PatchIdle ==
    projOrig = <<>> /\ projText = <<>> /\ patchRuns = 0
SolIdle ==
    srcProject = <<>> /\ solution = <<>> /\ solPc = "idle"
PkgIdle ==
    /\ configH = [present |-> FALSE, lines |-> <<>>]
    /\ buildDir = [abs |-> FALSE, parts |-> <<>>]
    /\ extras = [given |-> FALSE, files |-> {}, emptyDirs |-> {}]
    /\ dlls = {} /\ archiveName = <<>>
    /\ archive = [dll |-> "", binary |-> <<>>, extras |-> EmptyBag]
    /\ pkgPc = "idle"

(***************************************************************************)
(* The pipeline: main() and its stages, with the git state of the clones.  *)
(***************************************************************************)

\* The clones as they are before the first run on a fresh build directory.
NoF4se == [exists |-> FALSE, head |-> 0, refs |-> {}, dirty |-> FALSE]
NoCommon == [exists |-> FALSE, head |-> 0, fetchHead |-> 0, dirty |-> FALSE]

\* One external command: op is the git subcommand or "msbuild", repo the clone
\* it acts on, r the revision argument (0 when the command names none).
Cmd(op, repo, r) == [op |-> op, repo |-> repo, r |-> r]

\* fetch_f4se's command list: fetch + checkout for an existing f4se clone,
\* else clone --branch; fetch HEAD + reset --hard for an existing common
\* clone, else clone.
FetchCmds(f4seExists, commonExists, r) ==
    (IF f4seExists
       THEN <<Cmd("fetch", "f4se", r), Cmd("checkout --force", "f4se", 0)>>
       ELSE <<Cmd("clone --branch", "f4se", r)>>)
    \o
    (IF commonExists
       THEN <<Cmd("fetch HEAD", "common", 0), Cmd("reset --hard FETCH_HEAD", "common", 0)>>
       ELSE <<Cmd("clone", "common", 0)>>)

\* What a successful git command does to the f4se clone.
\*   clone --branch r --depth=1 : a new clone, HEAD and working tree at r
\*   fetch --depth=1 origin r:refs/remotes/origin/r : stores the ref only
\*   checkout --force (no revision given) : the working tree is reset to the
\*     tree of the current HEAD, local changes are thrown away; HEAD stays
GitF4se(c, repo) ==
    CASE c.op = "clone --branch" ->
            [exists |-> TRUE, head |-> c.r, refs |-> {c.r}, dirty |-> FALSE]
      [] c.op = "fetch" -> [repo EXCEPT !.refs = @ \cup {c.r}]
      [] c.op = "checkout --force" -> [repo EXCEPT !.dirty = FALSE]
      [] OTHER -> repo

\* What a successful git command does to the common clone; up is the commit
\* the remote's HEAD points to.
GitCommon(c, repo, up) ==
    CASE c.op = "clone" ->
            [exists |-> TRUE, head |-> up, fetchHead |-> up, dirty |-> FALSE]
      [] c.op = "fetch HEAD" -> [repo EXCEPT !.fetchHead = up]
      [] c.op = "reset --hard FETCH_HEAD" ->
            [repo EXCEPT !.head = repo.fetchHead, !.dirty = FALSE]
      [] OTHER -> repo

\* except subprocess.CalledProcessError as e: raise SystemExit(e.returncode)
ExitCodeOneOf(returncode) == 1
ExitCodeOf(returncode) == returncode

\* raise SystemExit(1) of make_solution
FatalExit == 1

\* The order in which main() calls the stages.
StageOrder == <<"fetch", "patch", "copy", "solution", "build", "package">>

\* main(): the position after stage s has returned.
StageAfterSwapped(s) ==
    CASE s = "fetch" -> "patch"
      [] s = "patch" -> "copy"
      [] s = "copy" -> "build"
      [] s = "build" -> "solution"
      [] s = "solution" -> "package"
      [] OTHER -> "return"
StageAfter(s) ==
    CASE s = "fetch" -> "patch"
      [] s = "patch" -> "copy"
      [] s = "copy" -> "solution"
      [] s = "solution" -> "build"
      [] s = "build" -> "package"
      [] OTHER -> "return"

\* Log entries.
EvStart(s) == [ev |-> "start", what |-> s, rc |-> 0]
EvEnd(s) == [ev |-> "end", what |-> s, rc |-> 0]
EvCmd(c, rc) == [ev |-> "cmd", what |-> c.op, rc |-> rc]
EvFail(why) == [ev |-> "fail", what |-> why, rc |-> 0]

InitRun ==
    /\ pc = "main" /\ rev \in Revs /\ cmds = <<>> /\ log = <<>> /\ exitStatus = 0
    /\ archiveWritten = FALSE
    /\ f4se = NoF4se /\ common = NoCommon
    /\ upstream = 1 /\ runs = 1

\* main() calls fetch_f4se, which builds its command list (lines 61-92).
FetchBegin ==
    /\ pc = "main"
    /\ cmds' = FetchCmds(f4se.exists, common.exists, rev)
    /\ log' = Append(log, EvStart("fetch"))
    /\ pc' = "fetch"
    /\ UNCHANGED <<rev, exitStatus, archiveWritten, f4se, common, upstream, runs, notRun>>

\* One turn of the loop of fetch_f4se: subprocess.run(cmd, check=True); a
\* non-zero return code raises CalledProcessError, turned into SystemExit.
FetchRun ==
    /\ pc = "fetch" /\ cmds # <<>>
    /\ \E rc \in ReturnCodes :
         /\ log' = Append(log, EvCmd(Head(cmds), rc))
         /\ IF rc = 0
              THEN /\ f4se' = IF Head(cmds).repo = "f4se" THEN GitF4se(Head(cmds), f4se) ELSE f4se
                   /\ common' = IF Head(cmds).repo = "common"
                                  THEN GitCommon(Head(cmds), common, upstream) ELSE common
                   /\ cmds' = Tail(cmds)
                   /\ UNCHANGED <<pc, exitStatus>>
              ELSE /\ pc' = "exit"
                   /\ exitStatus' = ExitCodeOf(rc)
                   /\ UNCHANGED <<f4se, common, cmds>>
    /\ UNCHANGED <<rev, archiveWritten, upstream, runs, notRun>>

\* fetch_f4se returns after the last command (lines 100-101).
FetchEnd ==
    /\ pc = "fetch" /\ cmds = <<>>
    /\ log' = Append(log, EvEnd("fetch"))
    /\ pc' = StageAfter("fetch")
    /\ UNCHANGED <<rev, cmds, exitStatus, archiveWritten, f4se, common, upstream, runs, notRun>>

\* patch_f4se: rewrites f4se.vcxproj and two headers inside the f4se working
\* tree; an unreadable file is an uncaught exception (exit status 1).
PatchF4se ==
    /\ pc = "patch"
    /\ \E readable \in BOOLEAN :
         IF readable
           THEN /\ f4se' = [f4se EXCEPT !.dirty = TRUE]
                /\ log' = log \o <<EvStart("patch"), EvEnd("patch")>>
                /\ pc' = StageAfter("patch")
                /\ UNCHANGED exitStatus
           ELSE /\ log' = log \o <<EvStart("patch"), EvFail("unreadable file")>>
                /\ pc' = "exit" /\ exitStatus' = 1
                /\ UNCHANGED f4se
    /\ UNCHANGED <<rev, cmds, archiveWritten, common, upstream, runs, notRun>>

\* update_project_references: next(glob("*.vcxproj")) raises StopIteration
\* when the project directory holds no project file.
UpdateProjectReferences ==
    /\ pc = "copy"
    /\ \E hasProject \in BOOLEAN :
         IF hasProject
           THEN /\ log' = log \o <<EvStart("copy"), EvEnd("copy")>>
                /\ pc' = StageAfter("copy")
                /\ UNCHANGED exitStatus
           ELSE /\ log' = log \o <<EvStart("copy"), EvFail("no project file")>>
                /\ pc' = "exit" /\ exitStatus' = 1
    /\ UNCHANGED <<rev, cmds, archiveWritten, f4se, common, upstream, runs, notRun>>

\* make_solution: SystemExit(1) unless both the name and the GUID are found.
MakeSolution ==
    /\ pc = "solution"
    /\ \E nameMatch \in BOOLEAN, guidMatch \in BOOLEAN :
         IF nameMatch /\ guidMatch
           THEN /\ log' = log \o <<EvStart("solution"), EvEnd("solution")>>
                /\ pc' = StageAfter("solution")
                /\ UNCHANGED exitStatus
           ELSE /\ log' = log \o <<EvStart("solution"), EvFail("no name or GUID")>>
                /\ pc' = "exit" /\ exitStatus' = FatalExit
    /\ UNCHANGED <<rev, cmds, archiveWritten, f4se, common, upstream, runs, notRun>>

\* build_plugin: os.environ["INCLUDE"] is read while the argument list is
\* built (KeyError when unset, before msbuild is run); then msbuild runs and a
\* non-zero return code is turned into SystemExit.
BuildPlugin ==
    /\ pc = "build"
    /\ \E includeSet \in BOOLEAN, rc \in ReturnCodes :
         IF ~includeSet
           THEN /\ log' = log \o <<EvStart("build"), EvFail("INCLUDE unset")>>
                /\ pc' = "exit" /\ exitStatus' = 1
           ELSE IF rc = 0
             THEN /\ log' = log \o <<EvStart("build"), EvCmd(Cmd("msbuild", "", 0), rc),
                                     EvEnd("build")>>
                  /\ pc' = StageAfter("build")
                  /\ UNCHANGED exitStatus
             ELSE /\ log' = log \o <<EvStart("build"), EvCmd(Cmd("msbuild", "", 0), rc)>>
                  /\ pc' = "exit" /\ exitStatus' = ExitCodeOf(rc)
    /\ UNCHANGED <<rev, cmds, archiveWritten, f4se, common, upstream, runs, notRun>>

\* package_plugin at the level of the pipeline: next(glob("*.dll")) raises
\* StopIteration when the build left no binary; else the archive is written.
PackagePlugin ==
    /\ pc = "package"
    /\ \E hasDll \in BOOLEAN :
         IF hasDll
           THEN /\ log' = log \o <<EvStart("package"), EvEnd("package")>>
                /\ archiveWritten' = TRUE
                /\ pc' = StageAfter("package")
                /\ UNCHANGED exitStatus
           ELSE /\ log' = log \o <<EvStart("package"), EvFail("no binary")>>
                /\ pc' = "exit" /\ exitStatus' = 1
                /\ UNCHANGED archiveWritten
    /\ UNCHANGED <<rev, cmds, f4se, common, upstream, runs, notRun>>

\* main() returns 0 and the script raises SystemExit(main()).
MainReturn ==
    /\ pc = "return"
    /\ pc' = "exit" /\ exitStatus' = 0
    /\ UNCHANGED <<rev, cmds, log, archiveWritten, f4se, common, upstream, runs, notRun>>

\* The tool is run again on the same build directory, with any revision; the
\* clones of the earlier runs are still there.
RunAgain ==
    /\ pc = "exit" /\ runs < MaxRuns
    /\ \E r \in Revs : rev' = r
    /\ pc' = "main" /\ cmds' = <<>> /\ log' = <<>> /\ exitStatus' = 0
    /\ archiveWritten' = FALSE
    /\ runs' = runs + 1
    /\ UNCHANGED <<f4se, common, upstream, notRun>>

\* The common repository's default branch receives a commit between runs.
UpstreamAdvance ==
    /\ pc = "exit" /\ upstream < NumRevs
    /\ upstream' = upstream + 1
    /\ UNCHANGED <<pc, rev, cmds, log, exitStatus, archiveWritten, f4se, common, runs, notRun>>

Init == InitRun /\ IncIdle /\ PatchIdle /\ SolIdle /\ PkgIdle

Next ==
    \/ FetchBegin
    \/ FetchRun
    \/ FetchEnd
    \/ PatchF4se
    \/ UpdateProjectReferences
    \/ MakeSolution
    \/ BuildPlugin
    \/ PackagePlugin
    \/ MainReturn
    \/ RunAgain
    \/ UpstreamAdvance

Spec == Init /\ [][Next]_vars

(***************************************************************************)
(* Claims about the pipeline.                                              *)
(***************************************************************************)

\* Entry i of the log is a failure: an external command that returned a
\* non-zero status, or an explicit fatal condition.
FailedAt(i) ==
    \/ log[i].ev = "fail"
    \/ log[i].ev = "cmd" /\ log[i].rc # 0

\* The stages started by the current run, in the order they started.
StartedStages ==
    LET starts == SelectSeq(log, LAMBDA e : e.ev = "start")
    IN  [i \in 1..Len(starts) |-> starts[i].what]

IsPrefix(s, t) == Len(s) <= Len(t) /\ \A i \in 1..Len(s) : s[i] = t[i]

\* C1: an external command (a git command of fetch_f4se, or msbuild) that
\* returns a non-zero status c is the last thing the run does: the run has
\* exited with status c, and no command and no stage follows it.
C1_CommandFailureExits ==
    \A i \in 1..Len(log) :
        (log[i].ev = "cmd" /\ log[i].rc # 0) =>
            /\ i = Len(log)
            /\ pc = "exit"
            /\ exitStatus = log[i].rc

\* A run in which msbuild returned the largest status and the run has exited.
C1_Witness ==
    /\ pc = "exit"
    /\ log # <<>>
    /\ log[Len(log)].ev = "cmd"
    /\ log[Len(log)].what = "msbuild"
    /\ log[Len(log)].rc = MaxReturnCode

\* C9: the run is a strict linear pipeline. The stages start at most once
\* each, in the order fetch, patch, copy, solution, build, package; a stage
\* other than the first starts only after the stage before it has ended and
\* nothing has failed; a failure is the last thing the run does and gives a
\* non-zero exit status; the archive is written only after the five earlier
\* stages have ended; exit status 0 is returned only after package ended.
C9_StrictLinearPipeline ==
    /\ IsPrefix(StartedStages, StageOrder)
    /\ \A i \in 1..Len(log) :
          (log[i].ev = "start" /\ log[i].what # StageOrder[1]) =>
              /\ \A j \in 1..(i - 1) : ~FailedAt(j)
              /\ \E k \in 2..Len(StageOrder), j \in 1..(i - 1) :
                    /\ log[i].what = StageOrder[k]
                    /\ log[j] = EvEnd(StageOrder[k - 1])
    /\ \A i \in 1..Len(log) :
          FailedAt(i) => (i = Len(log) /\ pc = "exit" /\ exitStatus # 0)
    /\ archiveWritten =>
          \A k \in 1..(Len(StageOrder) - 1) :
              \E j \in 1..Len(log) : log[j] = EvEnd(StageOrder[k])
    /\ (pc = "exit" /\ exitStatus = 0) =>
          \E j \in 1..Len(log) : log[j] = EvEnd("package")

\* A run that went through all six stages, wrote the archive and exited 0.
C9_Witness ==
    /\ pc = "exit" /\ exitStatus = 0 /\ archiveWritten
    /\ StartedStages = StageOrder

\* C3: when fetch_f4se has succeeded, the f4se working tree is the tree of
\* the requested revision, whether the clone was made by this run or was
\* there before, checked out at any revision.
C3_FetchReachesRevision ==
    (pc = StageAfter("fetch")) =>
        (f4se.exists /\ f4se.head = rev /\ ~f4se.dirty)

(***************************************************************************)
(* add_include_line.  A file is a sequence of characters.                  *)
(***************************************************************************)
NL == "\n"
FileChars == {"x", "i", NL}
IncChars == {"x", "i"}

BoundedSeq(S, n) == UNION {[1..k -> S] : k \in 0..n}

\* include_line arguments: a non-empty line, with or without its newline.
IncludeLines ==
    LET body == BoundedSeq(IncChars, MaxIncLen) \ {<<>>}
    IN  body \cup {Append(b, NL) : b \in body}

\* f.readlines(): the content cut after every newline; a last line without
\* a newline is a line too.
RECURSIVE ReadLines(_)
ReadLines(s) ==
    IF s = <<>> THEN <<>>
    ELSE IF \E k \in 1..Len(s) : s[k] = NL
      THEN LET k == CHOOSE k \in 1..Len(s) :
                        s[k] = NL /\ \A j \in 1..(k - 1) : s[j] # NL
           IN  <<SubSeq(s, 1, k)>> \o ReadLines(SubSeq(s, k + 1, Len(s)))
      ELSE <<s>>

\* list.insert(idx, x): x goes before position idx (0-based), or to the end
\* when the list is shorter.
ListInsert(l, idx, x) ==
    LET k == IF idx > Len(l) THEN Len(l) ELSE idx
    IN  SubSeq(l, 1, k) \o <<x>> \o SubSeq(l, k + 1, Len(l))

\* f.writelines(lines): the lines written one after the other, as they are.
RECURSIVE WriteLines(_)
WriteLines(lines) ==
    IF lines = <<>> THEN <<>> ELSE Head(lines) \o WriteLines(Tail(lines))

\* add_include_line(filepath, include_line): the new content and the return
\* value.
AddIncludeLine(content, line) ==
    LET inc == IF line # <<>> /\ line[Len(line)] = NL THEN line ELSE Append(line, NL)
        lines == ReadLines(content)
    IN  IF \E i \in 1..Len(lines) : lines[i] = inc
          THEN [content |-> content, ret |-> FALSE]
          ELSE [content |-> WriteLines(ListInsert(lines, 1, inc)), ret |-> TRUE]

InitInclude ==
    /\ incFile \in BoundedSeq(FileChars, MaxFileLen)
    /\ incLine \in IncludeLines
    /\ incFirst = <<>> /\ incCount = 0 /\ incRet = FALSE

\* The patch is applied to the file (by this run of the tool or a later one).
ApplyIncludePatch ==
    /\ incCount < MaxApplications
    /\ LET r == AddIncludeLine(incFile, incLine)
       IN  /\ incFile' = r.content
           /\ incRet' = r.ret
           /\ incFirst' = IF incCount = 0 THEN r.content ELSE incFirst
    /\ incCount' = incCount + 1
    /\ UNCHANGED <<incLine, notInc>>

NextInclude == ApplyIncludePatch

InitSpecInclude == InitInclude /\ RunIdle /\ PatchIdle /\ SolIdle /\ PkgIdle

SpecInclude == InitSpecInclude /\ [][NextInclude]_vars

\* C7: add_include_line is idempotent: from the second application on the
\* file is what the first application left, and the call returns False.
C7_Idempotent ==
    (incCount >= 2) => (incFile = incFirst /\ incRet = FALSE)

(***************************************************************************)
(* Project files (.vcxproj).  A project file is a sequence of lines; a     *)
(* line holds one tag: the opening tag of a PropertyGroup with its Label,  *)
(* an element with its text, the closing tag of a PropertyGroup, or other  *)
(* text.  The three regular expressions of the program over project files  *)
(* have one shape: the opening tag of a PropertyGroup whose Label is L,    *)
(* then lazily any characters (line breaks included) up to the opening tag *)
(* of an element E, the element's text on that line, then E's closing tag  *)
(* and lazily any characters up to a closing tag of a PropertyGroup.  They *)
(* are modelled by BlockSearch.                                            *)
(***************************************************************************)
OpenLine(label) == [kind |-> "open", val |-> <<label>>]
ElemLine(elem, text) == [kind |-> elem, val |-> text]
CloseLine == [kind |-> "close", val |-> <<>>]
TextLine == [kind |-> "text", val |-> <<>>]

\* The least element of a non-empty set of numbers.
Least(S) == CHOOSE x \in S : \A y \in S : x <= y

\* re.search of the expression for label L and element E in lines, from
\* line `from` on.  The match starts at the first opening tag labelled L;
\* [\S\s]*? runs over any lines, closing tags included, to the first line
\* with element E after it, and from there to the first closing tag.
BlockSearch(lines, from, label, elem) ==
    LET opens == {i \in from..Len(lines) : lines[i] = OpenLine(label)}
        elemsAfter(i) == {j \in (i + 1)..Len(lines) : lines[j].kind = elem}
        closesAfter(j) == {m \in (j + 1)..Len(lines) : lines[m].kind = "close"}
    IN  IF opens = {} THEN [found |-> FALSE, open |-> 0, elem |-> 0, close |-> 0]
        ELSE LET i == Least(opens)
             IN  IF elemsAfter(i) = {} \/ closesAfter(Least(elemsAfter(i))) = {}
                   THEN [found |-> FALSE, open |-> 0, elem |-> 0, close |-> 0]
                   ELSE [found |-> TRUE, open |-> i, elem |-> Least(elemsAfter(i)),
                         close |-> Least(closesAfter(Least(elemsAfter(i))))]

(***************************************************************************)
(* patch_f4se: the ConfigurationType substitution in f4se.vcxproj.         *)
(***************************************************************************)
Dynamic == <<"DynamicLibrary">>
Static == <<"StaticLibrary">>

PatchLineSet ==
    {OpenLine("Configuration"), OpenLine("Globals"), CloseLine, TextLine,
     ElemLine("ConfigurationType", Dynamic), ElemLine("ConfigurationType", Static)}

\* re.sub(...) of patch_f4se: every match, left to right without overlap, has
\* the text of its ConfigurationType element replaced by StaticLibrary.
RECURSIVE ReSubConfigType(_, _)
ReSubConfigType(lines, from) ==
    LET m == BlockSearch(lines, from, "Configuration", "ConfigurationType")
    IN  IF ~m.found THEN lines
        ELSE ReSubConfigType([lines EXCEPT ![m.elem].val = Static], m.close + 1)

InitPatch ==
    /\ projOrig \in BoundedSeq(PatchLineSet, MaxProjLines)
    /\ projText = projOrig
    /\ patchRuns = 0

\* patch_f4se reads f4se.vcxproj, substitutes and writes it back.
PatchProjectFile ==
    /\ patchRuns < MaxPatchRuns
    /\ projText' = ReSubConfigType(projText, 1)
    /\ patchRuns' = patchRuns + 1
    /\ UNCHANGED <<projOrig, notPatch>>

NextPatch == PatchProjectFile

InitSpecPatch == InitPatch /\ RunIdle /\ IncIdle /\ SolIdle /\ PkgIdle

SpecPatch == InitSpecPatch /\ [][NextPatch]_vars

\* Line k of the file lies inside a PropertyGroup block labelled
\* Configuration: such a block opens at or before k and has not closed before k.
InConfigurationBlock(lines, k) ==
    \E i \in 1..k :
        /\ lines[i] = OpenLine("Configuration")
        /\ \A c \in i..(k - 1) : lines[c].kind # "close"

\* C8: the substitution leaves every line outside the PropertyGroup blocks
\* labelled Configuration as it was.
C8_FrameOutsideBlock ==
    (patchRuns >= 1) =>
        /\ Len(projText) = Len(projOrig)
        /\ \A k \in 1..Len(projOrig) :
              ~InConfigurationBlock(projOrig, k) => projText[k] = projOrig[k]

(***************************************************************************)
(* make_solution.  The solution file is a sequence of lines, a line a      *)
(* sequence of tokens; the characters of the plugin name are tokens.       *)
(***************************************************************************)
ZeroGuid == "{00000000-0000-0000-0000-000000000000}"
ProjHead == "Project(\"{8BC9CEB8-8B4A-11D0-8D11-00A0C91BC942}\") = \""
Sep == "\", \""
Quote == "\""
BuildProjectName == "build.vcxproj"

\* The two lines re_project matches: the Project line with the three
\* placeholders, and EndProject.
ProjLine == <<ProjHead, "PLUGIN_NAME", Sep, "PLUGIN_DIR", Sep, ZeroGuid, Quote>>
EndProjectLine == <<"EndProject">>

\* The bundled template f4se_plugin.sln: the project's entry, and the lines
\* of the global section that name the project by its identifier.
TemplateSln ==
    << <<"Microsoft Visual Studio Solution File">>,
       ProjLine,
       EndProjectLine,
       <<"Global">>,
       <<"\t\t", ZeroGuid, ".Release|x64.ActiveCfg = Release|x64">>,
       <<"\t\t", ZeroGuid, ".Release|x64.Build.0 = Release|x64">>,
       <<"EndGlobal">> >>

\* Characters of Python's re template parser.
DIGITS == {"0", "1", "2", "3", "4", "5", "6", "7", "8", "9"}
OCTDIGITS == {"0", "1", "2", "3", "4", "5", "6", "7"}
\* The character an octal escape of the template stands for.
OctalChar == "<octal escape>"

NameChars == {"F", "o", "3", "9"}
Names == BoundedSeq(NameChars, MaxNameLen)
Guids == {"{1F2E3D4C-0000-4000-8000-00000000000A}", "{ABCDEF01-0000-4000-8000-00000000000B}"}

\* The replacement template rf"\1{plugin_name}\2{path}\3" as re expands it
\* for a match of re_project.  The name follows \1 directly: a name that
\* starts with a digit d turns \1 into the group reference \1d (re.error:
\* the expression has three groups), or, when \1 and the next two characters
\* are octal digits, into an octal escape that stands for one character.
ExpandProjectTemplate(name, path) ==
    IF name # <<>> /\ name[1] \in DIGITS
      THEN IF Len(name) >= 2 /\ name[1] \in OCTDIGITS /\ name[2] \in OCTDIGITS
             THEN [error |-> FALSE,
                   line |-> <<OctalChar>> \o SubSeq(name, 3, Len(name))
                              \o <<Sep, path, Sep, ZeroGuid, Quote>>]
             ELSE [error |-> TRUE, line |-> <<>>]
      ELSE [error |-> FALSE,
            line |-> <<ProjHead>> \o name \o <<Sep, path, Sep, ZeroGuid, Quote>>]

\* re_project.sub: every Project line followed by EndProject is replaced by
\* the expanded template.
ReProjectSub(text, expanded) ==
    [i \in 1..Len(text) |->
        IF text[i] = ProjLine /\ i < Len(text) /\ text[i + 1] = EndProjectLine
          THEN expanded ELSE text[i]]

\* re_guid.sub on one line: (.*) is greedy and does not cross a line break,
\* so the match runs to the last all-zero identifier of the line and that
\* occurrence is the one replaced.
ReGuidSubLine(line, guid) ==
    LET at == {k \in 1..Len(line) : line[k] = ZeroGuid}
    IN  IF at = {} THEN line
        ELSE [line EXCEPT ![CHOOSE k \in at : \A j \in at : j <= k] = guid]

ReGuidSub(text, guid) == [i \in 1..Len(text) |-> ReGuidSubLine(text[i], guid)]

\* make_solution: where it ends and what it writes.
MakeSolutionResult(project) ==
    LET nameMatch == BlockSearch(project, 1, "Globals", "RootNamespace")
        guidMatch == BlockSearch(project, 1, "Globals", "ProjectGuid")
    IN  IF ~(nameMatch.found /\ guidMatch.found)
          THEN [pc |-> "fatal", text |-> <<>>]
          ELSE LET pluginName == project[nameMatch.elem].val
                   pluginGuid == project[guidMatch.elem].val[1]
                   expanded == ExpandProjectTemplate(pluginName, BuildProjectName)
               IN  IF expanded.error
                     THEN [pc |-> "error", text |-> <<>>]
                     ELSE [pc |-> "written",
                           text |-> ReGuidSub(ReProjectSub(TemplateSln, expanded.line),
                                              pluginGuid)]

SrcLineSet(n, g) ==
    {OpenLine("Globals"), OpenLine("Configuration"), CloseLine,
     ElemLine("RootNamespace", n), ElemLine("ProjectGuid", <<g>>)}

InitSolution ==
    /\ \E n \in Names, g \in Guids :
          srcProject \in BoundedSeq(SrcLineSet(n, g), MaxSrcLines)
    /\ solution = <<>>
    /\ solPc = "start"

\* make_solution runs on the project file.
MakeSolutionFile ==
    /\ solPc = "start"
    /\ LET r == MakeSolutionResult(srcProject)
       IN  solPc' = r.pc /\ solution' = r.text
    /\ UNCHANGED <<srcProject, notSol>>

NextSolution == MakeSolutionFile

InitSpecSolution == InitSolution /\ RunIdle /\ IncIdle /\ PatchIdle /\ PkgIdle

SpecSolution == InitSpecSolution /\ [][NextSolution]_vars

\* The first PropertyGroup block labelled Globals of a project file: the
\* lines from its opening tag to the first closing tag after it.
GlobalsBlock(project) ==
    LET opens == {i \in 1..Len(project) : project[i] = OpenLine("Globals")}
    IN  IF opens = {} THEN {}
        ELSE LET i == Least(opens)
                 closes == {m \in (i + 1)..Len(project) : project[m].kind = "close"}
             IN  IF closes = {} THEN {} ELSE i..Least(closes)

\* The project file declares a name and an identifier in its Globals block.
DeclaresNameAndGuid(project) ==
    /\ \E k \in GlobalsBlock(project) : project[k].kind = "RootNamespace"
    /\ \E k \in GlobalsBlock(project) : project[k].kind = "ProjectGuid"

DeclaredName(project) ==
    project[Least({k \in GlobalsBlock(project) : project[k].kind = "RootNamespace"})].val
DeclaredGuid(project) ==
    project[Least({k \in GlobalsBlock(project) : project[k].kind = "ProjectGuid"})].val[1]

\* A line with every token tok replaced by the tokens repl.
RECURSIVE SubstTokens(_, _, _)
SubstTokens(line, tok, repl) ==
    IF line = <<>> THEN <<>>
    ELSE (IF Head(line) = tok THEN repl ELSE <<Head(line)>>)
         \o SubstTokens(Tail(line), tok, repl)

\* The template with the three placeholders replaced everywhere.
Substituted(text, name, path, guid) ==
    [i \in 1..Len(text) |->
        SubstTokens(SubstTokens(SubstTokens(text[i], "PLUGIN_NAME", name),
                                "PLUGIN_DIR", <<path>>), ZeroGuid, <<guid>>)]

\* C6: for a project file that declares a name N and an identifier G in its
\* Globals block, make_solution writes the template with N, the project's
\* path and G in place of the placeholders, and no placeholder remains.
C6_PlaceholdersReplaced ==
    (solPc # "start" /\ DeclaresNameAndGuid(srcProject)) =>
        /\ solPc = "written"
        /\ solution = Substituted(TemplateSln, DeclaredName(srcProject), BuildProjectName,
                                  DeclaredGuid(srcProject))
        /\ \A i \in 1..Len(solution) : \A k \in 1..Len(solution[i]) :
              solution[i][k] \notin {"PLUGIN_NAME", "PLUGIN_DIR", ZeroGuid}

(***************************************************************************)
(* package_plugin.  Config.h is a sequence of lines; a line is             *)
(*   #define NAME "value"   (defstr)                                       *)
(*   #define NAME token     (defbare)                                      *)
(*   #define NAME           (defempty)                                     *)
(*   an empty line          (blank)                                        *)
(* A text is a sequence of tokens, so that a whole line and a single word  *)
(* can be compared.  A path is a sequence of components.                   *)
(***************************************************************************)
PropNames == {"PLUGIN_NAME_LONG", "PLUGIN_NAME_SHORT", "PLUGIN_VERSION_STRING"}
StringValues == {"MyPlugin", "1.0"}
BareValues == {"1"}

DefStr(n, v) == [kind |-> "defstr", name |-> n, val |-> v]
DefBare(n, v) == [kind |-> "defbare", name |-> n, val |-> v]
DefEmpty(n) == [kind |-> "defempty", name |-> n, val |-> ""]
BlankLine == [kind |-> "blank", name |-> "", val |-> ""]

HeaderLineSet ==
    {DefStr(n, v) : n \in PropNames, v \in StringValues}
    \cup {DefBare(n, v) : n \in PropNames, v \in BareValues}
    \cup {DefEmpty(n) : n \in PropNames}
    \cup {BlankLine}

\* Python values: None, or a string.
None == [none |-> TRUE, s |-> ""]
Str(x) == [none |-> FALSE, s |-> x]
Truthy(v) == ~v.none /\ v.s # ""
\* a or b
PyOr(a, b) == IF Truthy(a) THEN a ELSE b
\* "{}".format(v)
Format(v) == IF v.none THEN "None" ELSE v.s

\* re_property.search(line).  The expression is an alternation of
\*   ^#define\s+(\w+)\s+"(.*)"      groups 1 and 2
\*   ([\w.]+)$                      group 3
\* g0 is the whole match: the #define with its quoted value for the first
\* alternative, the last word of the line for the second.
ReProperty(line) ==
    CASE line.kind = "defstr" ->
            [found |-> TRUE, g0 |-> <<"#define", line.name, Quote, line.val, Quote>>,
             g1 |-> Str(line.name), g2 |-> Str(line.val), g3 |-> None]
      [] line.kind = "defbare" ->
            [found |-> TRUE, g0 |-> <<line.val>>,
             g1 |-> None, g2 |-> None, g3 |-> Str(line.val)]
      [] line.kind = "defempty" ->
            [found |-> TRUE, g0 |-> <<line.name>>,
             g1 |-> None, g2 |-> None, g3 |-> Str(line.name)]
      [] OTHER ->
            [found |-> FALSE, g0 |-> <<>>, g1 |-> None, g2 |-> None, g3 |-> None]

\* The properties dict after the loop, read at key: each matching line stored
\* properties[m[0]] = m[1] or m[2], a later line replacing an earlier one.
PropertiesAt(lines, key) ==
    LET at == {i \in 1..Len(lines) : ReProperty(lines[i]).found /\ ReProperty(lines[i]).g0 = key}
    IN  IF at = {} THEN [has |-> FALSE, val |-> None]
        ELSE LET m == ReProperty(lines[CHOOSE i \in at : \A j \in at : j <= i])
             IN  [has |-> TRUE, val |-> PyOr(m.g1, m.g2)]

\* properties.get(key)
PropertiesGet(lines, key) == PropertiesAt(lines, key).val

GenericName == <<"plugin">>

\* archive_name of package_plugin (the try block and its except).
ArchiveNameOf(header) ==
    IF ~header.present THEN GenericName
    ELSE LET long == PropertiesGet(header.lines, <<"PLUGIN_NAME_LONG">>)
             short == PropertiesAt(header.lines, <<"PLUGIN_NAME_SHORT">>)
             version == PropertiesGet(header.lines, <<"PLUGIN_VERSION_STRING">>)
         IN  IF Truthy(long) THEN <<Format(long), Format(version)>>
             ELSE IF short.has THEN <<Format(short.val), Format(version)>>
             ELSE GenericName

PluginPrefix == <<"Data", "F4SE", "Plugins">>
DllNames == {"plugin.dll", "helper.dll"}
IsDll(path) == path # <<>> /\ path[Len(path)] \in DllNames

BuildDirs ==
    {[abs |-> FALSE, parts |-> <<"build">>],
     [abs |-> FALSE, parts |-> <<>>],
     [abs |-> FALSE, parts |-> <<"..", "build">>],
     [abs |-> TRUE, parts |-> <<"work", "build">>]}

\* next((ctx.build_dir / "x64/Release").glob("*.dll")) for the file named d.
PluginDllPath(bd, d) == [abs |-> bd.abs, parts |-> bd.parts \o <<"x64", "Release", d>>]

\* f"Data/F4SE/Plugins/{plugin_dll}" cut at the separators: an absolute path
\* starts with a separator, which leaves an empty component.
BinaryArcname(p) == PluginPrefix \o (IF p.abs THEN <<"">> ELSE <<>>) \o p.parts

\* os.path.normpath, which zipfile applies to an entry's name: empty
\* components are dropped and a ".." takes away the component before it.
RECURSIVE NormPathOnto(_, _)
NormPathOnto(done, rest) ==
    IF rest = <<>> THEN done
    ELSE LET c == Head(rest)
         IN  IF c = "" \/ c = "." THEN NormPathOnto(done, Tail(rest))
             ELSE IF c = ".." /\ done # <<>> /\ done[Len(done)] # ".."
               THEN NormPathOnto(SubSeq(done, 1, Len(done) - 1), Tail(rest))
             ELSE NormPathOnto(Append(done, c), Tail(rest))
NormPath(parts) == NormPathOnto(<<>>, parts)

ExtraFiles ==
    {<<"readme.txt">>, <<"Data", "F4SE", "Plugins", "helper.dll">>, <<"Data", "Scripts", "s.pex">>}
ExtraEmptyDirs == {<<"Data", "Docs">>}
NoExtras == [given |-> FALSE, files |-> {}, emptyDirs |-> {}]

\* The directories ctx.include_extras.walk() visits, relative to the root.
WalkDirs(tree) ==
    UNION ({{SubSeq(f, 1, k) : k \in 0..(Len(f) - 1)} : f \in tree.files}
           \cup {{SubSeq(d, 1, k) : k \in 0..Len(d)} : d \in tree.emptyDirs})
FileNamesIn(tree, dir) ==
    {f[Len(f)] : f \in {g \in tree.files : SubSeq(g, 1, Len(g) - 1) = dir}}

\* The entries the walk writes: for every directory with files, every file
\* under arch_dir / filename.
ExtrasEntries(tree) ==
    UNION {{NormPath(Append(dir, fn)) : fn \in FileNamesIn(tree, dir)} : dir \in WalkDirs(tree)}

InitPackage ==
    /\ configH \in {[present |-> FALSE, lines |-> <<>>]}
                   \cup {[present |-> TRUE, lines |-> l] :
                            l \in BoundedSeq(HeaderLineSet, MaxHeaderLines)}
    /\ extras \in {NoExtras}
                  \cup {[given |-> TRUE, files |-> f, emptyDirs |-> e] :
                           f \in SUBSET ExtraFiles, e \in SUBSET ExtraEmptyDirs}
    /\ buildDir \in BuildDirs
    /\ dlls \in SUBSET DllNames
    /\ archiveName = <<>>
    /\ archive = [dll |-> "", binary |-> <<>>, extras |-> EmptyBag]
    /\ pkgPc = "start"

\* package_plugin, lines 231-243: the archive's name.
PackageName ==
    /\ pkgPc = "start"
    /\ archiveName' = ArchiveNameOf(configH)
    /\ pkgPc' = "named"
    /\ UNCHANGED <<configH, buildDir, extras, dlls, archive, notPkg>>

\* package_plugin, lines 245-258: the binary is looked up (StopIteration
\* when there is none; glob's order is unspecified) and the archive written.
PackageWrite ==
    /\ pkgPc = "named"
    /\ IF dlls = {}
         THEN pkgPc' = "failed" /\ UNCHANGED archive
         ELSE \E d \in dlls :
                /\ archive' = [dll |-> d,
                               binary |-> NormPath(BinaryArcname(PluginDllPath(buildDir, d))),
                               extras |-> IF extras.given
                                            THEN SetToBag(ExtrasEntries(extras))
                                            ELSE EmptyBag]
                /\ pkgPc' = "written"
    /\ UNCHANGED <<configH, buildDir, extras, dlls, archiveName, notPkg>>

NextPackage == PackageName \/ PackageWrite

InitSpecPackage == InitPackage /\ RunIdle /\ IncIdle /\ PatchIdle /\ SolIdle

SpecPackage == InitSpecPackage /\ [][NextPackage]_vars

\* Config.h defines name as the string v, and as nothing else.
DefinesString(header, name, v) ==
    /\ header.present
    /\ \E i \in 1..Len(header.lines) : header.lines[i] = DefStr(name, v)
    /\ \A i \in 1..Len(header.lines) :
          (header.lines[i].kind = "defstr" /\ header.lines[i].name = name) =>
              header.lines[i].val = v

\* Config.h defines name as some string.
DefinesSomeString(header, name) ==
    /\ header.present
    /\ \E i \in 1..Len(header.lines) :
          header.lines[i].kind = "defstr" /\ header.lines[i].name = name

\* C2: for a Config.h that defines PLUGIN_NAME_LONG as the string N and
\* PLUGIN_VERSION_STRING as the string V, the archive is named "N V".
C2_NameFromHeader ==
    \A n \in StringValues, v \in StringValues :
        (/\ pkgPc # "start"
         /\ DefinesString(configH, "PLUGIN_NAME_LONG", n)
         /\ DefinesString(configH, "PLUGIN_VERSION_STRING", v))
        => archiveName = <<n, v>>

\* C10: when Config.h cannot be read or defines neither PLUGIN_NAME_LONG nor
\* PLUGIN_NAME_SHORT as a string, the archive gets the generic name, and
\* packaging goes on: only a missing binary keeps the archive from being
\* written.  The name is always the generic one or built from string values
\* the header defines.
C10_FallbackName ==
    (pkgPc # "start") =>
        /\ (~DefinesSomeString(configH, "PLUGIN_NAME_LONG")
            /\ ~DefinesSomeString(configH, "PLUGIN_NAME_SHORT"))
           => archiveName = GenericName
        /\ \/ archiveName = GenericName
           \/ /\ Len(archiveName) = 2
              /\ \A k \in 1..2 : \E i \in 1..Len(configH.lines) :
                    /\ configH.lines[i].kind = "defstr"
                    /\ configH.lines[i].val = archiveName[k]
        /\ (pkgPc = "failed") => (dlls = {})

\* Every entry of the archive, with its number of copies.
AllEntries == SetToBag({archive.binary}) (+) archive.extras

\* C4: the written archive holds exactly one binary entry under
\* Data/F4SE/Plugins/, an entry for every file of the extras tree at its
\* relative path, and nothing for directories.
C4_ArchiveContents ==
    (pkgPc = "written") =>
        /\ LET under == {e \in BagToSet(AllEntries) : IsDll(e) /\ IsPrefix(PluginPrefix, e)}
           IN  /\ Cardinality(under) = 1
               /\ \A e \in under : CopiesIn(e, AllEntries) = 1
        /\ \A f \in extras.files : CopiesIn(f, archive.extras) = 1
        /\ BagToSet(archive.extras) \subseteq extras.files

\* C5: the binary's entry is Data/F4SE/Plugins/ followed by the binary's
\* file name, whatever the build directory.
C5_BinaryPath ==
    (pkgPc = "written") => (archive.binary = Append(PluginPrefix, archive.dll))

====
